---- MODULE Spec2Model ----
(***************************************************************************)
(* Model of mathml/xmlterm.py: the AST -> SAX event emitter (SaxTerm), the *)
(* DOM -> AST extractor (dom_to_tree) and the three parse() front ends,    *)
(* together with the term-then-boolean fallback of examples/infix.py.      *)
(*                                                                         *)
(* Encoding.  An AST is the tagged list of the source, written as a tuple  *)
(* whose first element is the tag; Python index k is TLA+ index k+1.       *)
(* Numbers are integers, a Complex / Rational / ENotation value is the     *)
(* pair of its two parts.  Python's None and the empty string are "".      *)
(* A string test such as operator.startswith(u'const:') or operator[:4]    *)
(* is decided over the finite vocabulary of tags the model uses.           *)
(***************************************************************************)
EXTENDS Integers, Sequences, FiniteSets, TLC

VARIABLES
    mode,      \* which entry point runs: "infix", "term", "bool", "termlist", "tree", "dom"
    pc,        \* position of the run
    term,      \* the text handed to parse(), "" when none
    tree,      \* the AST handed to tree_to_sax, <<>> when none
    events,    \* the events the content handler has received so far
    doc,       \* the document (its documentElement), EmptyDoc when none
    result     \* what dom_to_tree gave: [err |-> exception or "", tree |-> AST]

vars == <<mode, pc, term, tree, events, doc, result>>

----------------------------------------------------------------------------
(* Bounds of the model. *)

\* most operands of an application and items of a list or interval in the
\* generated ASTs
MaxOperands == 2
\* most children of a piece, apply, list or interval element in the generated
\* documents
MaxChildren == 3
\* most piece children of a generated piecewise element
MaxPieces == 3
\* integers the model converts to text and back are in -MaxInt .. MaxInt
MaxInt == 12

----------------------------------------------------------------------------
(* Tables of the module. *)

MATHML_NAMESPACE_URI == "http://www.w3.org/1998/Math/MathML"

ELEMENT_CONSTANT_MAP ==
    ("true" :> "true") @@ ("false" :> "false") @@ ("pi" :> "pi") @@
    ("i" :> "imaginaryi") @@ ("e" :> "exponentiale")

FUNCTION_MAP ==
    ("+" :> "plus") @@ ("-" :> "minus") @@ ("*" :> "times") @@
    ("/" :> "divide") @@ ("^" :> "power") @@ ("|" :> "factorof") @@
    ("=" :> "eq") @@ ("<>" :> "neq") @@ ("!=" :> "neq") @@ (">" :> "gt") @@
    (">=" :> "geq") @@ ("<=" :> "leq") @@ ("<" :> "lt")

\* dict.get: the mapped value, or None
map_operator(operator) ==
    IF operator \in DOMAIN FUNCTION_MAP THEN FUNCTION_MAP[operator] ELSE ""

map_constant(name) ==
    IF name \in DOMAIN ELEMENT_CONSTANT_MAP THEN ELEMENT_CONSTANT_MAP[name] ELSE ""

NO_ATTR == <<>>

\* _attributes(**attributes): the one attribute the emitter ever sets
attributes(name, value) == <<name, value>>

----------------------------------------------------------------------------
(* Text of numbers. *)

Digit(d) ==
    CASE d = 0 -> "0" [] d = 1 -> "1" [] d = 2 -> "2" [] d = 3 -> "3"
      [] d = 4 -> "4" [] d = 5 -> "5" [] d = 6 -> "6" [] d = 7 -> "7"
      [] d = 8 -> "8" [] d = 9 -> "9"

RECURSIVE Decimal(_)
Decimal(n) == IF n < 10 THEN Digit(n) ELSE Decimal(n \div 10) \o Digit(n % 10)

\* mkstr on a number: unicode(str(value), 'ascii')
mkstr(value) == IF value < 0 THEN "-" \o Decimal(-value) ELSE Decimal(value)

----------------------------------------------------------------------------
(* Events and the emitter, SaxTerm. *)

Event(ev, name, attr, content) ==
    [ev |-> ev, ns |-> IF ev \in {"startElementNS", "endElementNS"}
                        THEN MATHML_NAMESPACE_URI ELSE "",
     name |-> name, attr |-> attr, content |-> content]

\* an emission: the events sent, and the exception that ended it ("" if none)
Sent(ev) == [ev |-> ev, err |-> ""]
Raised(err) == [ev |-> <<>>, err |-> err]
\* statement a, then statement b unless a raised
Then(a, b) == IF a.err # "" THEN a ELSE [ev |-> a.ev \o b.ev, err |-> b.err]

open_tag(name, attr) == Sent(<<Event("startElementNS", name, attr, "")>>)

close_tag(name) == Sent(<<Event("endElementNS", name, NO_ATTR, "")>>)

characters(content) == Sent(<<Event("characters", "", NO_ATTR, content)>>)

write_element(name, content, attr) ==
    Then(Sent(<<Event("startElementNS", name, attr, "")>>),
    Then(IF content # "" THEN characters(content) ELSE Sent(<<>>),
         Sent(<<Event("endElementNS", name, NO_ATTR, "")>>)))

\* operator.startswith(u'const:') and operator[6:]
ConstType ==
    ("const:bool" :> "bool") @@ ("const:integer" :> "integer") @@
    ("const:complex" :> "complex") @@ ("const:rational" :> "rational") @@
    ("const:enotation" :> "enotation")

\* operator[:9] == u'interval:' and operator[9:]
IntervalClosure ==
    ("interval:open" :> "open") @@ ("interval:closed" :> "closed") @@
    ("interval:open-closed" :> "open-closed") @@
    ("interval:closed-open" :> "closed-open") @@ ("interval:" :> "")

\* operator[:4] == u'list'
ListPrefixed == {"list", "listsum"}

\* tuple(value) succeeds: a constant of a pair kind carries its two parts
send_bin_constant(typename, value) ==
    Then(open_tag("cn", attributes("type", typename)),
    Then(characters(mkstr(value[1])),
    Then(write_element("sep", "", NO_ATTR),
    Then(characters(mkstr(value[2])),
         close_tag("cn")))))

RECURSIVE recursive_tree_to_sax(_)

\* for elem in islice(tree, 1, None): tree_to_sax(elem), from element k on
RECURSIVE send_items(_, _)
send_items(t, k) ==
    IF k + 1 > Len(t) THEN Sent(<<>>)
    ELSE Then(recursive_tree_to_sax(t[k + 1]), send_items(t, k + 1))

\* send_case with the condition sent before the value
send_case_condition_first(t) ==
    Then(open_tag("piecewise", NO_ATTR),
    Then(open_tag("piece", NO_ATTR),
    Then(IF Len(t) > 1 THEN recursive_tree_to_sax(t[2]) ELSE Raised("IndexError"),
    Then(IF Len(t) > 2 THEN recursive_tree_to_sax(t[3]) ELSE Raised("IndexError"),
    Then(close_tag("piece"),
    Then(IF Len(t) > 3
         THEN Then(open_tag("otherwise", NO_ATTR),
              Then(recursive_tree_to_sax(t[4]),
                   close_tag("otherwise")))
         ELSE Sent(<<>>),
         close_tag("piecewise")))))))

send_case(t) ==
    Then(open_tag("piecewise", NO_ATTR),
    Then(open_tag("piece", NO_ATTR),
    Then(IF Len(t) > 2 THEN recursive_tree_to_sax(t[3]) ELSE Raised("IndexError"),
    Then(IF Len(t) > 1 THEN recursive_tree_to_sax(t[2]) ELSE Raised("IndexError"),
    Then(close_tag("piece"),
    Then(IF Len(t) > 3
         THEN Then(open_tag("otherwise", NO_ATTR),
              Then(recursive_tree_to_sax(t[4]),
                   close_tag("otherwise")))
         ELSE Sent(<<>>),
         close_tag("piecewise")))))))

\* send_list closing a list element whatever it opened
send_list_closes_list(t, list_type, attr) ==
    Then(open_tag(list_type, attr),
    Then(send_items(t, 1),
         close_tag("list")))

send_list(t, list_type, attr) ==
    Then(open_tag(list_type, attr),
    Then(send_items(t, 1),
         close_tag(list_type)))

\* send_function naming the function in a ci element
send_function_ci(fname, t) ==
    Then(open_tag("apply", NO_ATTR),
    Then(write_element("ci", fname, NO_ATTR),
    Then(send_items(t, 1),
         close_tag("apply"))))

send_function(fname, t) ==
    Then(open_tag("apply", NO_ATTR),
    Then(write_element(fname, "", NO_ATTR),
    Then(send_items(t, 1),
         close_tag("apply"))))

recursive_tree_to_sax(t) ==
    LET operator == t[1]
        mapped_operator == map_operator(operator)
    IN  IF mapped_operator # "" THEN send_function(mapped_operator, t)
        ELSE IF operator = "name" THEN
            LET name == t[2]   \* mkstr leaves a string as it is
                constant == map_constant(name)
            IN  IF constant # "" THEN write_element(constant, "", NO_ATTR)
                ELSE write_element("ci", name, NO_ATTR)
        ELSE IF operator \in DOMAIN ConstType THEN
            IF operator = "const:bool"
            THEN write_element(IF t[2] THEN "true" ELSE "false", "", NO_ATTR)
            ELSE IF operator \in {"const:complex", "const:rational"}
            THEN send_bin_constant(ConstType[operator], t[2])
            ELSE IF operator = "const:enotation"
            THEN send_bin_constant("e-notation", t[2])
            ELSE write_element("cn", mkstr(t[2]),
                               attributes("type", ConstType[operator]))
        ELSE IF operator = "case" THEN send_case(t)
        ELSE IF operator \in ListPrefixed THEN send_list(t, "list", NO_ATTR)
        ELSE IF operator \in DOMAIN IntervalClosure THEN
            LET closure == IF IntervalClosure[operator] # ""
                           THEN IntervalClosure[operator] ELSE "closed"
            IN  send_list(t, "interval", attributes("closure", closure))
        ELSE send_function(operator, t)

tree_to_sax(t) ==
    Then(Sent(<<Event("startDocument", "", NO_ATTR, "")>>),
    Then(Sent(<<Event("startPrefixMapping", "", NO_ATTR, MATHML_NAMESPACE_URI)>>),
    Then(recursive_tree_to_sax(t),
    Then(Sent(<<Event("endPrefixMapping", "", NO_ATTR, "")>>),
         Sent(<<Event("endDocument", "", NO_ATTR, "")>>)))))

----------------------------------------------------------------------------
(* Documents.  A node is an element (localName, one optional attribute,    *)
(* childNodes) or a text node (localName "#text", data).  NoneNode stands  *)
(* for Python's None where the DOM has no such node.                       *)

Node(localName, attr, data, childNodes) ==
    [localName |-> localName, attr |-> attr, data |-> data, childNodes |-> childNodes]

Text(data) == Node("#text", NO_ATTR, data, <<>>)
El(localName, attr, childNodes) == Node(localName, attr, "", childNodes)
NoneNode == Node("#none", NO_ATTR, "", <<>>)
EmptyDoc == NoneNode

IsElement(n) == n.localName \notin {"#text", "#none"}

firstChild(n) == IF n.childNodes = <<>> THEN NoneNode ELSE n.childNodes[1]

\* the document a SAX builder makes of a complete event sequence: the element
\* that starts at event i, and the index after its end event
RECURSIVE sax_element(_, _)
RECURSIVE sax_children(_, _, _)
sax_children(ev, i, acc) ==
    IF ev[i].ev = "endElementNS" THEN [nodes |-> acc, next |-> i + 1]
    ELSE IF ev[i].ev = "characters"
    THEN sax_children(ev, i + 1, Append(acc, Text(ev[i].content)))
    ELSE LET e == sax_element(ev, i)
         IN  sax_children(ev, e.next, Append(acc, e.node))

sax_element(ev, i) ==
    LET c == sax_children(ev, i + 1, <<>>)
    IN  [node |-> El(ev[i].name, ev[i].attr, c.nodes), next |-> c.next]

\* MathDOM.fromMathmlSax: startDocument, startPrefixMapping, the root element
fromMathmlSax(ev) == sax_element(ev, 3).node

----------------------------------------------------------------------------
(* MathElement accessors. *)

mathtype(element) == element.localName

valuetype(element) ==
    IF element.attr # NO_ATTR /\ element.attr[1] = "type" THEN element.attr[2] ELSE "real"

closure(element) ==
    IF element.attr # NO_ATTR /\ element.attr[1] = "closure" THEN element.attr[2]
    ELSE "closed"

\* int(text): the integer whose decimal text this is
IsNumeral(s) == \E n \in -MaxInt .. MaxInt : mkstr(n) = s
StrToInt(s) == CHOOSE n \in -MaxInt .. MaxInt : mkstr(n) = s

textParts(element) ==
    SelectSeq(element.childNodes, LAMBDA n : n.localName = "#text")

\* an extraction: the AST, or the exception raised ("" if none)
Ok(t) == [err |-> "", tree |-> t]
Fail(err) == [err |-> err, tree |-> <<>>]

\* element.value()
value(element) ==
    LET parts == textParts(element)
    IN  IF valuetype(element) \in {"complex", "rational", "e-notation"}
        THEN IF Len(parts) # 2 THEN Fail("NotImplementedError")
             ELSE IF ~IsNumeral(parts[1].data) \/ ~IsNumeral(parts[2].data)
             THEN Fail("ValueError")
             ELSE Ok(<<StrToInt(parts[1].data), StrToInt(parts[2].data)>>)
        ELSE IF Len(parts) = 0 THEN Fail("AttributeError")
        ELSE IF ~IsNumeral(parts[1].data) THEN Fail("ValueError")
        ELSE Ok(StrToInt(parts[1].data))

\* valuetype().replace('-', '')
replace_dash(typename) == IF typename = "e-notation" THEN "enotation" ELSE typename

\* u'const:%s' % typename
ConstTag(typename) ==
    CASE typename = "integer" -> "const:integer"
      [] typename = "complex" -> "const:complex"
      [] typename = "rational" -> "const:rational"
      [] typename = "enotation" -> "const:enotation"
      [] typename = "bool" -> "const:bool"
      [] OTHER -> "const:real"

----------------------------------------------------------------------------
(* The extractor, dom_to_tree. *)

\* the two symbols _FUNCTION_MAP sends to neq: the inverted dictionary keeps
\* the one the dictionary iteration yields last
NeqSymbols == {"<>", "!="}

\* dict((v,n) for (n,v) in _FUNCTION_MAP.iteritems()).get(name, name)
inverse_operator(name, neq) ==
    IF name = "neq" THEN neq
    ELSE IF \E op \in DOMAIN FUNCTION_MAP : FUNCTION_MAP[op] = name
    THEN CHOOSE op \in DOMAIN FUNCTION_MAP : FUNCTION_MAP[op] = name
    ELSE name

\* dict((v,n) for (n,v) in _ELEMENT_CONSTANT_MAP.iteritems()).get(mtype)
inverse_constant(mtype) ==
    IF \E c \in DOMAIN ELEMENT_CONSTANT_MAP : ELEMENT_CONSTANT_MAP[c] = mtype
    THEN CHOOSE c \in DOMAIN ELEMENT_CONSTANT_MAP : ELEMENT_CONSTANT_MAP[c] = mtype
    ELSE ""

\* last_case.append(x), last_case being the list d levels down the last
\* elements of case
RECURSIVE AppendAt(_, _, _)
AppendAt(case, d, x) ==
    IF d = 0 THEN Append(case, x)
    ELSE [case EXCEPT ![Len(case)] = AppendAt(case[Len(case)], d - 1, x)]

\* the list last_case is bound to
RECURSIVE ListAt(_, _)
ListAt(case, d) == IF d = 0 THEN case ELSE ListAt(case[Len(case)], d - 1)

\* append_case leaving last_case bound to the outer list
append_case_flat(st, new_case) ==
    [st EXCEPT !.case = AppendAt(st.case, st.last_case, new_case)]

\* last_case.append(new_case); last_case = new_case
append_case(st, new_case) ==
    [st EXCEPT !.case = AppendAt(st.case, st.last_case, new_case),
               !.last_case = st.last_case + 1]

RECURSIVE recursive_dom_to_tree(_, _)

\* map(_recursive_dom_to_tree, children), from child k on, onto acc
RECURSIVE map_dom_to_tree(_, _, _, _)
map_dom_to_tree(children, k, acc, neq) ==
    IF k > Len(children) THEN Ok(acc)
    ELSE LET r == recursive_dom_to_tree(children[k], neq)
         IN  IF r.err # "" THEN r
             ELSE map_dom_to_tree(children, k + 1, Append(acc, r.tree), neq)

\* _piece_to_case taking the first child for the condition
piece_to_case_condition_first(piece, neq) ==
    LET children == piece.childNodes
    IN  IF Len(children) # 2 THEN Fail("NotImplementedError")
        ELSE LET r == map_dom_to_tree(children, 1, <<>>, neq)
             IN  IF r.err # "" THEN r
                 ELSE Ok(<<"case", r.tree[1], r.tree[2]>>)

\* _piece_to_case without the check of the number of children
piece_to_case_unchecked(piece, neq) ==
    LET children == piece.childNodes
    IN  IF Len(children) < 2 THEN Fail("ValueError")
        ELSE LET r == map_dom_to_tree(children, 1, <<>>, neq)
             IN  IF r.err # "" THEN r
                 ELSE Ok(<<"case", r.tree[2], r.tree[1]>>)

piece_to_case(piece, neq) ==
    LET children == piece.childNodes
    IN  IF Len(children) # 2 THEN Fail("NotImplementedError")
        ELSE LET r == map_dom_to_tree(children, 1, <<>>, neq)
             IN  IF r.err # "" THEN r
                 ELSE Ok(<<"case", r.tree[2], r.tree[1]>>)

\* the loop of _recursive_piecewise from child k on; st holds case, last_case
\* (as a depth into case), otherwise (<<>> for None) and err
RECURSIVE piecewise_loop(_, _, _, _)
piecewise_loop(children, k, st, neq) ==
    IF k > Len(children) THEN st
    ELSE LET piece == children[k]
             name == piece.localName
         IN  IF name = "piece" THEN
                 LET new_case == piece_to_case(piece, neq)
                 IN  IF new_case.err # "" THEN [st EXCEPT !.err = new_case.err]
                     ELSE piecewise_loop(children, k + 1,
                                         append_case(st, new_case.tree), neq)
             ELSE IF name = "otherwise" THEN
                 LET o == recursive_dom_to_tree(firstChild(piece), neq)
                 IN  IF o.err # "" THEN [st EXCEPT !.err = o.err]
                     ELSE piecewise_loop(children, k + 1,
                            [st EXCEPT !.otherwise = o.tree], neq)
             ELSE [st EXCEPT !.err = "NotImplementedError"]

recursive_piecewise(piecewise, neq) ==
    LET st == piecewise_loop(piecewise.childNodes, 1,
                  [case |-> <<>>, last_case |-> 0, otherwise |-> <<>>, err |-> ""], neq)
    IN  IF st.err # "" THEN Fail(st.err)
        ELSE IF st.otherwise # <<>> /\ ListAt(st.case, st.last_case) = <<>>
        THEN Ok(st.otherwise)
        ELSE LET case == IF st.otherwise # <<>>
                         THEN AppendAt(st.case, st.last_case, st.otherwise)
                         ELSE st.case
             IN  IF case = <<>> THEN Fail("IndexError") ELSE Ok(case[1])

\* the apply branch without the check of the operator's children
apply_to_tree_unchecked(element, neq) ==
    LET operator == firstChild(element)
    IN  IF operator = NoneNode THEN Fail("AttributeError")
        ELSE LET name == operator.localName
                 operands == map_dom_to_tree(element.childNodes, 2, <<>>, neq)
             IN  IF operands.err # "" THEN operands
                 ELSE Ok(<<inverse_operator(name, neq)>> \o operands.tree)

\* the apply branch of _recursive_dom_to_tree
apply_to_tree(element, neq) ==
    LET operator == firstChild(element)
    IN  IF operator = NoneNode THEN Fail("AttributeError")
        ELSE IF operator.childNodes # <<>> THEN Fail("NotImplementedError")
        ELSE LET name == operator.localName
                 operands == map_dom_to_tree(element.childNodes, 2, <<>>, neq)
             IN  IF operands.err # "" THEN operands
                 ELSE Ok(<<inverse_operator(name, neq)>> \o operands.tree)

\* the interval branch of _recursive_dom_to_tree
interval_to_tree(element, neq) ==
    LET list_items == map_dom_to_tree(element.childNodes, 1, <<>>, neq)
    IN  IF list_items.err # "" THEN list_items
        ELSE Ok(<<"interval:" \o closure(element)>> \o list_items.tree)

\* an element of no known kind taken for a name
unsupported_as_name(mtype) == Ok(<<"name", mtype>>)

\* raise NotImplementedError, u"%s elements are not supported" % mtype
unsupported(mtype) == Fail("NotImplementedError")

recursive_dom_to_tree(element, neq) ==
    IF ~IsElement(element) THEN Fail("AttributeError")
    ELSE
    LET mtype == mathtype(element)
        constant == inverse_constant(mtype)
    IN  IF constant # "" THEN
            IF constant \in {"true", "false"}
            THEN Ok(<<"const:bool", constant = "true">>)
            ELSE Ok(<<"name", constant>>)
        ELSE IF mtype = "ci" THEN
            IF firstChild(element).localName # "#text" THEN Fail("AttributeError")
            ELSE Ok(<<"name", firstChild(element).data>>)
        ELSE IF mtype = "cn" THEN
            LET v == value(element)
            IN  IF v.err # "" THEN v
                ELSE Ok(<<ConstTag(replace_dash(valuetype(element))), v.tree>>)
        ELSE IF mtype = "apply" THEN apply_to_tree(element, neq)
        ELSE IF mtype = "piecewise" THEN recursive_piecewise(element, neq)
        ELSE IF mtype = "list" THEN
            LET list_items == map_dom_to_tree(element.childNodes, 1, <<>>, neq)
            IN  IF list_items.err # "" THEN list_items
                ELSE Ok(<<mtype>> \o list_items.tree)
        ELSE IF mtype = "interval" THEN interval_to_tree(element, neq)
        ELSE unsupported(mtype)

dom_to_tree(d, neq) == recursive_dom_to_tree(d, neq)

----------------------------------------------------------------------------
(* The grammar, termparser: what each parser makes of the texts the model  *)
(* feeds it, <<>> standing for ParseException.                             *)

Int1 == <<"const:integer", 1>>
NameA == <<"name", "a">>

Texts == {"1+a", "sin(a)", "a = 1 or true", "1, a", "1+*2",
          "CASE WHEN 3|12 THEN 1+3 ELSE e^(4*1) END"}

parse_term(text) ==
    CASE text = "1+a" -> <<"+", Int1, NameA>>
      [] text = "sin(a)" -> <<"sin", NameA>>
      [] text = "CASE WHEN 3|12 THEN 1+3 ELSE e^(4*1) END" ->
            <<"case", <<"|", <<"const:integer", 3>>, <<"const:integer", 12>>>>,
                      <<"+", Int1, <<"const:integer", 3>>>>,
                      <<"^", <<"name", "e">>, <<"*", <<"const:integer", 4>>, Int1>>>>>>
      [] OTHER -> <<>>

parse_bool_expression(text) ==
    CASE text = "a = 1 or true" ->
            <<"or", <<"=", NameA, Int1>>, <<"const:bool", TRUE>>>>
      [] OTHER -> <<>>

parse_term_list(text) ==
    CASE text = "1, a" -> <<"list", Int1, NameA>>
      [] text = "1+a" -> <<"list", <<"+", Int1, NameA>>>>
      [] text = "sin(a)" -> <<"list", <<"sin", NameA>>>>
      [] OTHER -> <<>>

----------------------------------------------------------------------------
(* The parse() front ends: self.tree_to_sax( parse_xxx(expression) ).      *)
(* The argument is evaluated first; a ParseException leaves before         *)
(* tree_to_sax is entered.                                                 *)

ParseException == [ev |-> <<>>, err |-> "ParseException"]

\* parse() opening the document before it parses the text
TermSaxParser_parse_eager(text) ==
    IF parse_term(text) = <<>>
    THEN [ev |-> <<Event("startDocument", "", NO_ATTR, "")>>, err |-> "ParseException"]
    ELSE tree_to_sax(parse_term(text))

TermSaxParser_parse(text) ==
    IF parse_term(text) = <<>> THEN ParseException
    ELSE tree_to_sax(parse_term(text))

BoolExpressionSaxParser_parse(expression) ==
    IF parse_bool_expression(expression) = <<>> THEN ParseException
    ELSE tree_to_sax(parse_bool_expression(expression))

TermListSaxParser_parse(term_list) ==
    IF parse_term_list(term_list) = <<>> THEN ParseException
    ELSE tree_to_sax(parse_term_list(term_list))

----------------------------------------------------------------------------
(* The ASTs handed to tree_to_sax. *)

SeqsUpTo(S, n) == UNION {[1 .. k -> S] : k \in 0 .. n}

SmallAtoms == {NameA, <<"const:integer", 12>>, <<"const:complex", <<1, 3>>>>}

Atoms ==
    SmallAtoms \cup
    {<<"name", "pi">>, <<"name", "e">>, <<"name", "true">>,
     <<"const:bool", TRUE>>, <<"const:bool", FALSE>>, <<"const:integer", 0>>,
     <<"const:rational", <<-3, 4>>>>, <<"const:enotation", <<2, 10>>>>}

IntervalTags ==
    {"interval:open", "interval:closed", "interval:open-closed", "interval:closed-open"}

Heads == {"+", "^", "<>", "!=", "sin", "power", "listsum", "list"} \cup IntervalTags

\* an application has at least one operand; a list or interval may be empty
FlatTrees ==
    {<<h>> \o s : h \in Heads, s \in SeqsUpTo(SmallAtoms, MaxOperands)}
        \ {<<h>> : h \in Heads \ ({"list"} \cup IntervalTags)}

\* [case, cond], [case, cond, value], [case, cond, value, default]
CaseTrees == {<<"case">> \o s : s \in SeqsUpTo(SmallAtoms, 3) \ {<<>>}}

Level1 == Atoms \cup FlatTrees \cup CaseTrees

Wrap(t) ==
    {<<"+", t, NameA>>, <<"sin", t>>, <<"!=", NameA, t>>, <<"list", NameA, t>>,
     <<"interval:closed", t, NameA>>, <<"case", t, NameA>>,
     <<"case", NameA, t>>, <<"case", NameA, <<"const:integer", 12>>, t>>}

Level2 == UNION {Wrap(t) : t \in Level1}

Level3 == {<<"case", <<"name", "c">>, <<"const:integer", 7>>, t>> :
              t \in {x \in Level2 : x[1] = "case"}}

ASTs == Level1 \cup Level2 \cup Level3

----------------------------------------------------------------------------
(* The documents handed to dom_to_tree. *)

ci(name) == El("ci", NO_ATTR, <<Text(name)>>)
cn(n) == El("cn", attributes("type", "integer"), <<Text(mkstr(n))>>)
Empty(name) == El(name, NO_ATTR, <<>>)

\* an element kind the extractor does not know
Unknown == Empty("sum")

DocLeaves == {ci("a"), cn(12), Unknown}

ChildA(k) == IF k = 1 THEN ci("v1") ELSE IF k = 2 THEN ci("c1") ELSE cn(k)
ChildB(k) == IF k = 1 THEN cn(12) ELSE IF k = 2 THEN ci("c2") ELSE Empty("pi")

PieceA(n) == El("piece", NO_ATTR, [k \in 1 .. n |-> ChildA(k)])
PieceB(n) == El("piece", NO_ATTR, [k \in 1 .. n |-> ChildB(k)])

Otherwise(children) == El("otherwise", NO_ATTR, children)
Piecewise(children) == El("piecewise", NO_ATTR, children)

InsertAt(s, k, x) == SubSeq(s, 1, k) \o <<x>> \o SubSeq(s, k + 1, Len(s))
Insertions(s, x) == {InsertAt(s, k, x) : k \in 0 .. Len(s)}

PieceSeqs == SeqsUpTo({PieceA(2), PieceB(2)}, MaxPieces)

WellFormedClauses ==
    PieceSeqs \cup
    UNION {Insertions(s, Otherwise(<<ci("d")>>)) : s \in PieceSeqs}

BadPiecewise == Piecewise(<<PieceA(2), PieceB(MaxChildren)>>)

BadItems ==
    {PieceA(n) : n \in (0 .. MaxChildren) \ {2}} \cup
    {El("piece", NO_ATTR, <<Unknown, ci("c")>>), El("piece", NO_ATTR, <<ci("v"), Unknown>>),
     Otherwise(<<>>), Otherwise(<<Unknown>>), Otherwise(<<ci("d"), Unknown>>),
     Otherwise(<<ci("d"), BadPiecewise>>), ci("a"), Unknown}

MalformedClauses ==
    UNION {Insertions(s, b) : s \in {w \in WellFormedClauses : Len(w) <= 2},
                              b \in BadItems}

PiecewiseDocs == {Piecewise(s) : s \in WellFormedClauses \cup MalformedClauses}

Operators ==
    {Empty("plus"), Empty("neq"), Empty("sin"), ci("f"),
     El("apply", NO_ATTR, <<Empty("plus"), ci("a")>>)}

ApplyDocs ==
    {El("apply", NO_ATTR, <<>>)} \cup
    {El("apply", NO_ATTR, <<o>> \o s) : o \in Operators, s \in SeqsUpTo(DocLeaves, MaxChildren - 1)}

Closures == {NO_ATTR} \cup {attributes("closure", c) : c \in {"open", "closed", "open-closed", "closed-open"}}

ListDocs ==
    {El("list", NO_ATTR, s) : s \in SeqsUpTo(DocLeaves, MaxChildren)} \cup
    {El("interval", c, s) : c \in Closures, s \in SeqsUpTo(DocLeaves, MaxChildren)}

Cores == PiecewiseDocs \cup ApplyDocs \cup ListDocs \cup DocLeaves

SmallCores ==
    {d \in Cores : Len(d.childNodes) <= 1} \cup
    {BadPiecewise, El("interval", NO_ATTR, <<ci("a"), cn(12), ci("b")>>),
     El("apply", NO_ATTR, <<ci("f"), ci("a")>>)}

\* x below the root, at a place the extractor may or may not look at
Contexts(x) ==
    {El("apply", NO_ATTR, <<Empty("plus"), ci("a"), x>>),
     El("apply", NO_ATTR, <<x, ci("a")>>),
     El("apply", NO_ATTR, <<Empty("plus"), El("apply", NO_ATTR, <<>>), x>>),
     El("list", NO_ATTR, <<ci("a"), x>>),
     El("interval", attributes("closure", "open"), <<x, ci("a")>>),
     Piecewise(<<El("piece", NO_ATTR, <<x, ci("c")>>)>>),
     Piecewise(<<El("piece", NO_ATTR, <<ci("v"), x>>)>>),
     Piecewise(<<PieceA(2), Otherwise(<<x>>)>>),
     Piecewise(<<PieceA(2), Otherwise(<<ci("d"), x>>)>>),
     El("pi", NO_ATTR, <<x>>)}

Docs == Cores \cup UNION {Contexts(x) : x \in SmallCores}

----------------------------------------------------------------------------
(* The runs. *)

Modes == {"infix", "term", "bool", "termlist", "tree", "dom"}

NoResult == [err |-> "", tree |-> <<>>]

Init ==
    /\ mode \in Modes
    /\ pc = "start"
    /\ events = <<>>
    /\ result = NoResult
    /\ term \in IF mode \in {"tree", "dom"} THEN {""} ELSE Texts
    /\ tree \in IF mode = "tree" THEN ASTs ELSE {<<>>}
    /\ doc \in IF mode = "dom" THEN Docs ELSE {EmptyDoc}

\* what is left of a parse() call: the events sent, the AST they were sent
\* for, and where the run stands
AfterParse(sent, parsed, fallback) ==
    /\ events' = sent.ev
    /\ tree' = parsed
    /\ pc' = IF sent.err = "" THEN "emitted"
             ELSE IF sent.err # "ParseException" THEN "failed"
             ELSE IF fallback THEN "term_failed"
             ELSE "unparsable"
    /\ UNCHANGED <<mode, term, doc, result>>

\* MathDOM.fromMathmlSax(term, TermSaxParser()); in examples/infix.py a
\* ParseException here is caught and the boolean grammar is tried
TermParse ==
    /\ mode \in {"term", "infix"}
    /\ pc = "start"
    /\ AfterParse(TermSaxParser_parse(term), parse_term(term), mode = "infix")

\* MathDOM.fromMathmlSax(term, BoolExpressionSaxParser()), with a new document
BoolParse ==
    /\ \/ mode = "bool" /\ pc = "start"
       \/ mode = "infix" /\ pc = "term_failed"
    /\ AfterParse(BoolExpressionSaxParser_parse(term), parse_bool_expression(term), FALSE)

TermListParse ==
    /\ mode = "termlist"
    /\ pc = "start"
    /\ AfterParse(TermListSaxParser_parse(term), parse_term_list(term), FALSE)

\* SaxTerm.tree_to_sax(tree) on an AST of the caller
TreeToSax ==
    /\ mode = "tree"
    /\ pc = "start"
    /\ LET sent == tree_to_sax(tree)
       IN  /\ events' = sent.ev
           /\ pc' = IF sent.err = "" THEN "emitted" ELSE "failed"
    /\ UNCHANGED <<mode, term, tree, doc, result>>

\* the content handler's document, once endDocument has arrived
BuildDocument ==
    /\ pc = "emitted"
    /\ doc' = fromMathmlSax(events)
    /\ pc' = "built"
    /\ UNCHANGED <<mode, term, tree, events, result>>

\* dom_to_tree(doc), on the document built or on a document of the caller
DomToTree ==
    /\ \/ pc = "built"
       \/ mode = "dom" /\ pc = "start"
    /\ \E neq \in NeqSymbols :
           result' = dom_to_tree(doc, neq)
    /\ pc' = "extracted"
    /\ UNCHANGED <<mode, term, tree, events, doc>>

Next ==
    \/ TermParse
    \/ BoolParse
    \/ TermListParse
    \/ TreeToSax
    \/ BuildDocument
    \/ DomToTree

Spec == Init /\ [][Next]_vars

----------------------------------------------------------------------------
(* Properties. *)

\* tree_to_sax has returned: the handler holds the whole event sequence
EmissionComplete == mode # "dom" /\ pc \in {"emitted", "built", "extracted"}

\* the events between startPrefixMapping and endPrefixMapping
Body(ev) == SubSeq(ev, 3, Len(ev) - 2)

StartEv(name, attr) == Event("startElementNS", name, attr, "")
EndEv(name) == Event("endElementNS", name, NO_ATTR, "")
TextEv(content) == Event("characters", "", NO_ATTR, content)

\* the events of elements k.. of t, one after the other
RECURSIVE EventsFrom(_, _)
EventsFrom(t, k) ==
    IF k > Len(t) THEN <<>>
    ELSE recursive_tree_to_sax(t[k]).ev \o EventsFrom(t, k + 1)

IsLeafTag(op) == op = "name" \/ op \in DOMAIN ConstType

\* t with s in the place of every <> and != operator
RECURSIVE SubstNeq(_, _)
SubstNeq(t, s) ==
    IF IsLeafTag(t[1]) THEN t
    ELSE [k \in 1 .. Len(t) |->
            IF k > 1 THEN SubstNeq(t[k], s)
            ELSE IF t[1] \in NeqSymbols THEN s ELSE t[1]]

ElementNames == {FUNCTION_MAP[op] : op \in DOMAIN FUNCTION_MAP}

\* no node of t is one the emitter sends as a node of another kind: a name
\* true or false (sent as the boolean constant), a function identifier that
\* is an operator's element name or starts with list
RECURSIVE RoundTripSafe(_)
RoundTripSafe(t) ==
    IF t[1] = "name" THEN t[2] \notin {"true", "false"}
    ELSE IF t[1] \in DOMAIN ConstType THEN TRUE
    ELSE /\ t[1] \notin ElementNames
         /\ t[1] \in ListPrefixed => t[1] = "list"
         /\ \A k \in 2 .. Len(t) : RoundTripSafe(t[k])

\* C1 as stated: emitting an AST, building the document and extracting it
\* gives back an AST equal to the original.
C1_RoundTripIdentity ==
    (EmissionComplete /\ pc = "extracted") => result = Ok(tree)

\* C1 amended: for an AST with no name true/false and no function identifier
\* that is an operator's element name or starts with list, the round trip
\* gives back the AST with one and the same of the two symbols <> and != at
\* every neq operator, and equal to the original otherwise.
C1_RoundTripUpToNeq ==
    (EmissionComplete /\ pc = "extracted" /\ RoundTripSafe(tree))
        => \E s \in NeqSymbols : result = Ok(SubstNeq(tree, s))

C1_Witness ==
    /\ pc = "extracted"
    /\ tree = <<"case", NameA, <<"const:integer", 12>>,
                <<"!=", NameA, <<"const:complex", <<1, 3>>>>>>>>
    /\ result.err = ""

\* the events ev[i..last] are bracketed: every end closes the element opened
\* last and still open, text lies inside an element, every element is in the
\* MathML namespace, and there is one outermost element
RECURSIVE Bracketed(_, _, _, _, _)
Bracketed(ev, i, last, open, roots) ==
    IF i > last THEN open = <<>> /\ roots = 1
    ELSE IF ev[i].ev = "startElementNS" THEN
        /\ ev[i].ns = MATHML_NAMESPACE_URI
        /\ Bracketed(ev, i + 1, last, <<ev[i].name>> \o open,
                     IF open = <<>> THEN roots + 1 ELSE roots)
    ELSE IF ev[i].ev = "endElementNS" THEN
        /\ ev[i].ns = MATHML_NAMESPACE_URI
        /\ open # <<>>
        /\ Head(open) = ev[i].name
        /\ Bracketed(ev, i + 1, last, Tail(open), roots)
    ELSE IF ev[i].ev = "characters" THEN
        /\ open # <<>>
        /\ Bracketed(ev, i + 1, last, open, roots)
    ELSE FALSE

\* C2: once tree_to_sax has completed, the handler has received startDocument,
\* startPrefixMapping, a well-formed element sequence with one root in the
\* MathML namespace, endPrefixMapping, endDocument, in this order.
C2_WellFormedEvents ==
    EmissionComplete =>
        /\ Len(events) >= 6
        /\ events[1].ev = "startDocument"
        /\ events[2].ev = "startPrefixMapping"
        /\ events[2].content = MATHML_NAMESPACE_URI
        /\ events[Len(events) - 1].ev = "endPrefixMapping"
        /\ events[Len(events)].ev = "endDocument"
        /\ Bracketed(events, 3, Len(events) - 2, <<>>, 0)

C2_Witness ==
    /\ pc = "emitted"
    /\ tree = <<"interval:open", <<"const:complex", <<1, 3>>>>, NameA>>
    /\ Len(events) = 15

\* an application of a function identifier: the operator is no symbol of the
\* operator table and no tag of another node kind
IsFunctionNode(t) ==
    /\ t # <<>>
    /\ t[1] \notin DOMAIN FUNCTION_MAP
    /\ t[1] \notin {"name", "case", "list"}
    /\ t[1] \notin DOMAIN ConstType
    /\ t[1] \notin DOMAIN IntervalClosure

\* C3 as stated: a function application is sent as an apply element whose
\* first child is a ci element holding the identifier, then the operands.
C3_FunctionAsCi ==
    (EmissionComplete /\ IsFunctionNode(tree)) =>
        Body(events) = <<StartEv("apply", NO_ATTR), StartEv("ci", NO_ATTR),
                         TextEv(tree[1]), EndEv("ci")>>
                       \o EventsFrom(tree, 2) \o <<EndEv("apply")>>

\* C3 amended: a function application whose identifier does not start with
\* list is sent as an apply element whose first child is an empty element
\* named by the identifier, then the events of each operand in order, then
\* the close of apply.
C3_FunctionAsEmptyElement ==
    (EmissionComplete /\ IsFunctionNode(tree) /\ tree[1] \notin ListPrefixed) =>
        Body(events) = <<StartEv("apply", NO_ATTR), StartEv(tree[1], NO_ATTR),
                         EndEv(tree[1])>>
                       \o EventsFrom(tree, 2) \o <<EndEv("apply")>>

C3_Witness ==
    /\ pc = "emitted"
    /\ tree = <<"sin", <<"const:integer", 12>>, NameA>>
    /\ events[4] = StartEv("sin", NO_ATTR)
    /\ events[5] = EndEv("sin")

\* C4: a case node is sent as a piecewise element holding one piece element,
\* in it the events of the value and after them the events of the condition,
\* then an otherwise element around the events of the default exactly when
\* the node has a default, and nothing else.
C4_CaseEvents ==
    (EmissionComplete /\ tree # <<>> /\ tree[1] = "case") =>
        Body(events) =
            <<StartEv("piecewise", NO_ATTR), StartEv("piece", NO_ATTR)>>
            \o recursive_tree_to_sax(tree[3]).ev
            \o recursive_tree_to_sax(tree[2]).ev
            \o <<EndEv("piece")>>
            \o (IF Len(tree) > 3
                THEN <<StartEv("otherwise", NO_ATTR)>>
                     \o recursive_tree_to_sax(tree[4]).ev
                     \o <<EndEv("otherwise")>>
                ELSE <<>>)
            \o <<EndEv("piecewise")>>

C4_Witness ==
    /\ pc = "emitted"
    /\ tree = <<"case", NameA, <<"const:integer", 12>>, <<"const:complex", <<1, 3>>>>>>
    /\ events[5] = StartEv("cn", attributes("type", "integer"))
    /\ events[8] = StartEv("ci", NO_ATTR)
    /\ events[12] = StartEv("otherwise", NO_ATTR)

----------------------------------------------------------------------------
(* Properties of the extractor. *)

Extracted == mode = "dom" /\ pc = "extracted"

ChildrenNamed(e, name) == SelectSeq(e.childNodes, LAMBDA n : n.localName = name)

\* the extraction of element e goes through
Extracts(e) == recursive_dom_to_tree(e, "<>").err = ""

\* the case k - 1 default slots down t
RECURSIVE Clause(_, _)
Clause(t, k) == IF k = 1 THEN t ELSE Clause(t[4], k - 1)

\* a piecewise of n >= 1 two-child pieces and at most one one-child otherwise,
\* nothing else, whose parts extract
WellFormedPiecewise(e) ==
    /\ e.localName = "piecewise"
    /\ Len(ChildrenNamed(e, "piece")) >= 1
    /\ Len(ChildrenNamed(e, "otherwise")) <= 1
    /\ Len(ChildrenNamed(e, "piece")) + Len(ChildrenNamed(e, "otherwise")) = Len(e.childNodes)
    /\ \A k \in 1 .. Len(e.childNodes) :
          LET c == e.childNodes[k]
          IN  /\ Len(c.childNodes) = IF c.localName = "piece" THEN 2 ELSE 1
              /\ \A j \in 1 .. Len(c.childNodes) : Extracts(c.childNodes[j])

\* C5: a piecewise of n >= 1 pieces (value, condition) and at most one otherwise
\* extracts to the right-nested case: clause k is [case, cond k, value k] in
\* document order, clause k+1 is the default of clause k, and the content of
\* otherwise is the default of the last clause, which has none without it.
C5_RightNestedCase ==
    (Extracted /\ WellFormedPiecewise(doc)) =>
        LET pieces == ChildrenNamed(doc, "piece")
            others == ChildrenNamed(doc, "otherwise")
            n == Len(pieces)
        IN  /\ result.err = ""
            /\ \E neq \in NeqSymbols :
                 /\ \A k \in 1 .. n :
                      LET c == Clause(result.tree, k)
                      IN  /\ Len(c) = IF k < n \/ others # <<>> THEN 4 ELSE 3
                          /\ c[1] = "case"
                          /\ c[2] = recursive_dom_to_tree(pieces[k].childNodes[2], neq).tree
                          /\ c[3] = recursive_dom_to_tree(pieces[k].childNodes[1], neq).tree
                 /\ others # <<>> =>
                      Clause(result.tree, n)[4] =
                          recursive_dom_to_tree(others[1].childNodes[1], neq).tree

C5_Witness ==
    /\ Extracted
    /\ doc = Piecewise(<<PieceA(2), PieceB(2), PieceA(2), Otherwise(<<ci("d")>>)>>)
    /\ result.err = ""
    /\ Clause(result.tree, 3)[4] = <<"name", "d">>

\* some piece element of the document has a number of children other than 2
RECURSIVE AnyBadPiece(_)
AnyBadPiece(e) ==
    \/ e.localName = "piece" /\ Len(e.childNodes) # 2
    \/ \E k \in 1 .. Len(e.childNodes) : AnyBadPiece(e.childNodes[k])

\* no apply, otherwise, piecewise, ci or cn element of the document is childless
RECURSIVE NoChildless(_)
NoChildless(e) ==
    /\ e.localName \in {"apply", "otherwise", "piecewise", "ci", "cn"} => e.childNodes # <<>>
    /\ \A k \in 1 .. Len(e.childNodes) : NoChildless(e.childNodes[k])

\* a piece with a number of children other than 2 is a child of a piecewise
\* that is e itself, or below e an operand of an apply with a leaf operator, an
\* item of a list or interval, a child of a two-child piece or the first
\* child of an otherwise
RECURSIVE ReachesBadPiece(_)
ReachesBadPiece(e) ==
    \/ /\ e.localName = "piecewise"
       /\ \E k \in 1 .. Len(e.childNodes) :
            LET c == e.childNodes[k]
            IN  \/ c.localName = "piece" /\ Len(c.childNodes) # 2
                \/ /\ c.localName = "piece"
                   /\ \E j \in 1 .. Len(c.childNodes) : ReachesBadPiece(c.childNodes[j])
                \/ /\ c.localName = "otherwise"
                   /\ c.childNodes # <<>>
                   /\ ReachesBadPiece(c.childNodes[1])
    \/ /\ e.localName = "apply"
       /\ e.childNodes # <<>>
       /\ e.childNodes[1].childNodes = <<>>
       /\ \E k \in 2 .. Len(e.childNodes) : ReachesBadPiece(e.childNodes[k])
    \/ /\ e.localName \in {"list", "interval"}
       /\ \E k \in 1 .. Len(e.childNodes) : ReachesBadPiece(e.childNodes[k])

\* C6 as stated: the extraction of a document in which some piece element,
\* wherever it is, has a number of children other than 2 fails with
\* NotImplementedError.
C6_AnyBadPieceFails ==
    (Extracted /\ AnyBadPiece(doc)) => result.err = "NotImplementedError"

\* C6 amended: the extraction fails, returning no AST, when a piece with a
\* number of children other than 2 is a child of a piecewise the extractor
\* reaches; the error is NotImplementedError when no apply, otherwise,
\* piecewise or ci element of the document is childless.
C6_ReachedBadPieceFails ==
    (Extracted /\ ReachesBadPiece(doc)) =>
        /\ result.err # ""
        /\ result.tree = <<>>
        /\ NoChildless(doc) => result.err = "NotImplementedError"

C6_Witness ==
    /\ Extracted
    /\ doc = El("list", NO_ATTR, <<ci("a"), Piecewise(<<PieceA(3)>>)>>)
    /\ result.err = "NotImplementedError"

\* C7: an interval element with a number of children other than 2 fails with
\* NotImplementedError; one with 2 children gives the interval node with the
\* closure of the attribute and the 2 extracted children in order.
C7_IntervalTwoChildren ==
    (Extracted /\ doc.localName = "interval") =>
        IF Len(doc.childNodes) # 2
        THEN result.err = "NotImplementedError"
        ELSE (\A k \in 1 .. 2 : Extracts(doc.childNodes[k])) =>
                 \E neq \in NeqSymbols :
                     result = Ok(<<"interval:" \o closure(doc),
                                   recursive_dom_to_tree(doc.childNodes[1], neq).tree,
                                   recursive_dom_to_tree(doc.childNodes[2], neq).tree>>)

\* C8: for an apply element, a first child with a child node of its own makes
\* the extraction fail with NotImplementedError and no AST; with a leaf first
\* child the remaining children are the operands, in document order.
C8_ApplyOperatorLeaf ==
    (pc = "extracted" /\ doc.localName = "apply" /\ doc.childNodes # <<>>) =>
        IF doc.childNodes[1].childNodes # <<>>
        THEN result = Fail("NotImplementedError")
        ELSE (\A k \in 2 .. Len(doc.childNodes) : Extracts(doc.childNodes[k])) =>
                 /\ result.err = ""
                 /\ Len(result.tree) = Len(doc.childNodes)
                 /\ \E neq \in NeqSymbols :
                      \A k \in 2 .. Len(doc.childNodes) :
                          result.tree[k] = recursive_dom_to_tree(doc.childNodes[k], neq).tree

C8_Witness ==
    /\ Extracted
    /\ doc = El("apply", NO_ATTR, <<ci("f"), ci("a")>>)
    /\ result = Fail("NotImplementedError")

KnownKinds ==
    {ELEMENT_CONSTANT_MAP[c] : c \in DOMAIN ELEMENT_CONSTANT_MAP}
        \cup {"ci", "cn", "apply", "piecewise", "list", "interval"}

IsUnknown(e) == e.localName \notin KnownKinds

\* e is of no known kind, or below e an operand of apply, an item of list or
\* interval, or a child of piece or otherwise is, or a child of piecewise is
\* neither piece nor otherwise; otherwise counts with all its children, or
\* with the first alone
RECURSIVE Unsupported(_, _)
Unsupported(e, firstOnly) ==
    \/ IsUnknown(e)
    \/ /\ e.localName = "apply"
       /\ \E k \in 2 .. Len(e.childNodes) : Unsupported(e.childNodes[k], firstOnly)
    \/ /\ e.localName \in {"list", "interval"}
       /\ \E k \in 1 .. Len(e.childNodes) : Unsupported(e.childNodes[k], firstOnly)
    \/ /\ e.localName = "piecewise"
       /\ \E k \in 1 .. Len(e.childNodes) :
            LET c == e.childNodes[k]
            IN  \/ c.localName \notin {"piece", "otherwise"}
                \/ /\ c.localName = "piece"
                   /\ \E j \in 1 .. Len(c.childNodes) : Unsupported(c.childNodes[j], firstOnly)
                \/ /\ c.localName = "otherwise"
                   /\ \E j \in 1 .. (IF firstOnly THEN 1 ELSE Len(c.childNodes)) :
                        /\ j <= Len(c.childNodes)
                        /\ Unsupported(c.childNodes[j], firstOnly)

\* C9 as stated: an element of no known kind at the root, as an operand of
\* apply, an item of list or interval or a child of piece or otherwise, or a
\* child of piecewise that is neither piece nor otherwise, makes the
\* extraction fail with NotImplementedError.
C9_UnsupportedFails ==
    (Extracted /\ Unsupported(doc, FALSE)) => result.err = "NotImplementedError"

\* C9 amended: such an element makes the extraction fail, returning no AST,
\* where of the children of otherwise only the first counts; the error is
\* NotImplementedError when no apply, otherwise, piecewise or ci element of
\* the document is childless.
C9_ReachedUnsupportedFails ==
    (Extracted /\ Unsupported(doc, TRUE)) =>
        /\ result.err # ""
        /\ result.tree = <<>>
        /\ NoChildless(doc) => result.err = "NotImplementedError"

C9_Witness ==
    /\ Extracted
    /\ doc = Piecewise(<<PieceA(2), Otherwise(<<Unknown>>)>>)
    /\ result = Fail("NotImplementedError")

----------------------------------------------------------------------------
(* Properties of the parse() front ends. *)

\* C10: when the grammar rejects the text, the content handler has received
\* no event, in the term-then-boolean fallback too.
C10_NoEventBeforeParse ==
    pc \in {"term_failed", "unparsable"} => events = <<>>

C10_Witness ==
    /\ mode = "infix"
    /\ pc = "term_failed"
    /\ term = "a = 1 or true"
    /\ events = <<>>

====
